---- MODULE Spec2Model ----
(***************************************************************************)
(* Model of crates/entities/src/lib.rs: TextBuffer (a ropey 1.x Rope       *)
(* behind a parking_lot Mutex, plus a Vec of tokio mpsc senders behind a   *)
(* second Mutex) and the callers that use it concurrently.                 *)
(*                                                                         *)
(* The Rope is a sequence of characters.  Every character has a UTF-8      *)
(* encoding of one or two bytes, so char indices and byte offsets differ   *)
(* as soon as the text holds a two-byte character.  Rope::insert,          *)
(* Rope::remove and Rope::slice of ropey 1.x (the API that has len_bytes   *)
(* and len_lines without arguments) take CHAR indices and panic when the   *)
(* index is out of range; len_bytes counts bytes.                          *)
(***************************************************************************)
EXTENDS Integers, Sequences, FiniteSets, TLC

\* ------------------------------------------------------------------ bounds
NumCallers == 2      \* concurrent callers (tasks)
MaxCalls == 3        \* calls started in one behaviour
MaxMutations == 2    \* insert/remove calls among them
MaxInit == 1         \* characters of the initial text
MaxRemove == 2       \* largest len_bytes argument of remove
MaxPos == 2          \* largest byte offset a caller passes
MaxReads == 1        \* read calls among them
MaxDocCalls == 2     \* set_dirty/is_dirty calls among them
NumChans == 2        \* channels observers create, one add_observer call each
Cap == 1             \* capacity of each bounded mpsc channel

Callers == 1..NumCallers
Chans == 1..NumChans
NoOne == 0

\* ------------------------------------------------------------ text and UTF-8
\* "a" is U+0061 (one byte), "E" stands for U+00E9 (two bytes), "n" is the
\* line feed U+000A (one byte).
Chars == {"a", "E"}

Utf8(c) == IF c = "E" THEN <<195, 169>> ELSE IF c = "n" THEN <<10>> ELSE <<97>>

RECURSIVE Bytes(_)
Bytes(t) == IF t = <<>> THEN <<>> ELSE Utf8(Head(t)) \o Bytes(Tail(t))

TextsUpTo(k) == UNION {[1..m -> Chars] : m \in 0..k}

InsertTexts == TextsUpTo(1) \ {<<>>}

\* ------------------------------------------------------------------ ropey
\* Rope::len_bytes
RopeLenBytes(r) == Len(Bytes(r))

\* Rope::len_chars (the bound ropey checks indices against)
RopeLenChars(r) == Len(r)

\* RopeInsert with the index clamped to the end of the text instead of a panic.
RopeInsertClamped(r, idx, t) ==
    IF idx <= RopeLenChars(r)
    THEN [panic |-> FALSE, rope |-> SubSeq(r, 1, idx) \o t \o SubSeq(r, idx + 1, Len(r))]
    ELSE [panic |-> FALSE, rope |-> r \o t]

\* Rope::insert(char_idx, text): panics if char_idx > len_chars.
RopeInsert(r, idx, t) ==
    IF idx <= RopeLenChars(r)
    THEN [panic |-> FALSE, rope |-> SubSeq(r, 1, idx) \o t \o SubSeq(r, idx + 1, Len(r))]
    ELSE [panic |-> TRUE, rope |-> r]

\* Rope::remove(start..end): panics if start > end or end > len_chars.
RopeRemove(r, start, end) ==
    IF start <= end /\ end <= RopeLenChars(r)
    THEN [panic |-> FALSE, rope |-> SubSeq(r, 1, start) \o SubSeq(r, end + 1, Len(r))]
    ELSE [panic |-> TRUE, rope |-> r]

\* Rope::slice(start..end).to_string(): panics if start > end or end > len_chars.
RopeSlice(r, start, end) ==
    IF start <= end /\ end <= RopeLenChars(r)
    THEN [panic |-> FALSE, rope |-> SubSeq(r, start + 1, end)]
    ELSE [panic |-> TRUE, rope |-> <<>>]

\* Rope::len_lines: the line breaks of the text plus one.
RopeLenLines(r) == Cardinality({k \in 1..Len(r) : r[k] = "n"}) + 1

\* ------------------------------------------------------------- Vec helpers
\* VecRemove removing the element after the one asked for.
VecRemoveOffByOne(v, idx) == SubSeq(v, 1, idx) \o SubSeq(v, idx + 2, Len(v))

\* Vec::remove(idx), with the index counted from 1 as the model's sequences are.
VecRemove(v, idx) == SubSeq(v, 1, idx - 1) \o SubSeq(v, idx + 1, Len(v))

\* RemoveDisconnected that only counts the failures and removes nothing.
RemoveDisconnectedNone(v, d) == v

\* RemoveDisconnected without .rev(): the indices are removed in ascending order.
RECURSIVE RemoveDisconnectedForward(_, _)
RemoveDisconnectedForward(v, d) ==
    IF d = <<>> THEN v
    ELSE RemoveDisconnectedForward(VecRemove(v, Head(d)), Tail(d))

\* for &idx in disconnected_senders.iter().rev() { observers_mut.remove(idx); }
RECURSIVE RemoveDisconnected(_, _)
RemoveDisconnected(v, d) ==
    IF d = <<>> THEN v
    ELSE RemoveDisconnected(VecRemove(v, d[Len(d)]), SubSeq(d, 1, Len(d) - 1))

\* ------------------------------------------------------------------- state
VARIABLES
    rope,         \* TextBuffer.content: the Rope
    contentLock,  \* holder of the content Mutex, NoOne if free
    observers,    \* TextBuffer.observers: the Vec of senders (channel ids)
    obsLock,      \* holder of the observers Mutex, NoOne if free
    chan,         \* chan[ch]: events queued in channel ch
    rxAlive,      \* rxAlive[ch]: the Receiver of ch has not been dropped
    nchan,        \* channels created so far
    pc,           \* pc[c]: where caller c is
    call,         \* call[c]: the call caller c is in, or its last call
    i,            \* i[c]: loop index of notify_observers
    disc,         \* disc[c]: disconnected_senders of notify_observers
    ncalls,       \* history: calls started so far
    left,         \* history: the calls the callers may still start, by kind
    lastMut,      \* history: the last insert/remove that ran its critical section
    prevMut,      \* history: the one before it
    applied,      \* history: ids of the mutations in the order they changed the rope
    delivered,    \* history: delivered[ch] is every event a send put into ch
    expectedLen,  \* history: initial byte length plus the net of those mutations
    allInRange,   \* history: every insert/remove so far was in range, on boundaries
    is_dirty,     \* Document.is_dirty: the value behind the Mutex<bool>
    lastSet,      \* history: the argument of the latest set_dirty, FALSE before any
    attempts,     \* history: attempts[ch] is the outcome of every send to ch, in order
    reg,          \* history: reg[ch] is the state add_observer pushed the sender of ch in
    oneThread,    \* the callers are tasks polled by one thread (else a thread each)
    onThread      \* the task that thread is polling, NoOne if none

vars == <<rope, contentLock, observers, obsLock, chan, rxAlive, nchan, pc, call,
          i, disc, ncalls, left, lastMut, prevMut, applied, delivered,
          expectedLen, allInRange, is_dirty, lastSet, attempts, reg, oneThread,
          onThread>>

\* SendFails of try_send: a full channel is an error too.
SendFailsWhenFull(ch) == ~rxAlive[ch] \/ Len(chan[ch]) >= Cap

\* mpsc::Sender::send fails when the Receiver has been dropped.
SendFails(ch) == ~rxAlive[ch]

\* mpsc::Sender::send completes when the bounded channel has a free slot.
SendReady(ch) == Len(chan[ch]) < Cap

\* The senders of v whose receiver is gone.
DeadIn(v) == {v[k] : k \in {j \in 1..Len(v) : ~rxAlive[v[j]]}}

NewCall(id, op, pos, len, text, ch) ==
    [id |-> id, op |-> op, pos |-> pos, len |-> len, text |-> text, ch |-> ch,
     res |-> "pending", pre |-> <<>>, post |-> <<>>, ret |-> <<>>, retNum |-> 0,
     obs |-> <<>>, dead |-> {}, deadEnd |-> {}, pruned |-> <<>>, flag |-> FALSE]

NoCall == NewCall(0, "none", 0, 0, <<>>, 0)

\* reg[ch] of a channel whose sender has not been pushed.
NotRegistered == [len |-> 0, quiet |-> TRUE]

Init ==
    /\ rope \in TextsUpTo(MaxInit)
    /\ contentLock = NoOne
    /\ observers = <<>>
    /\ obsLock = NoOne
    /\ chan = [ch \in Chans |-> <<>>]
    /\ rxAlive = [ch \in Chans |-> TRUE]
    /\ nchan = 0
    /\ pc = [c \in Callers |-> "idle"]
    /\ call = [c \in Callers |-> NoCall]
    /\ i = [c \in Callers |-> 0]
    /\ disc = [c \in Callers |-> <<>>]
    /\ ncalls = 0
    /\ left = [calls |-> MaxCalls, muts |-> MaxMutations, reads |-> MaxReads,
               docs |-> MaxDocCalls, adds |-> NumChans]
    /\ lastMut = NoCall
    /\ prevMut = NoCall
    /\ applied = <<>>
    /\ delivered = [ch \in Chans |-> <<>>]
    /\ expectedLen = RopeLenBytes(rope)
    /\ allInRange = TRUE
    /\ is_dirty = FALSE
    /\ lastSet = FALSE
    /\ attempts = [ch \in Chans |-> <<>>]
    /\ reg = [ch \in Chans |-> NotRegistered]
    /\ oneThread \in BOOLEAN
    /\ onThread = NoOne

\* ------------------------------------------------------------------ events
\* InsertedEvent with the length counted in characters (text.chars().count()).
InsertedEventInChars(k) ==
    [kind |-> "Inserted", start |-> k.pos, len |-> Len(k.text), id |-> k.id]

\* TextBufferChangedEvent::Inserted { start_byte_idx, len_bytes }, built by insert
\* from position.byte_idx and text.len() (the byte length of the &str).  The id
\* field is history: it names the call the event was built by.
InsertedEvent(k) ==
    [kind |-> "Inserted", start |-> k.pos, len |-> Len(Bytes(k.text)), id |-> k.id]

\* TextBufferChangedEvent::Removed { start_byte_idx, len_bytes }, built by remove.
RemovedEvent(k) ==
    [kind |-> "Removed", start |-> k.pos, len |-> k.len, id |-> k.id]

EventOf(k) == IF k.op = "insert" THEN InsertedEvent(k) ELSE RemovedEvent(k)

\* ----------------------------------------------------------- call entries
\* ------------------------------------------------------------ the executor
\* Every operation of TextBuffer that notifies is an async fn: its caller is a
\* task.  The tasks are polled by a thread each, or all by one thread (a
\* current-thread runtime, a LocalSet, join!): that thread runs one task from
\* the poll to the next await that is pending, and a task waiting in a blocking
\* lock() keeps the thread.
CanPoll(c) == oneThread => onThread = NoOne

\* Task c is running synchronous code on its thread.
Runs(c) == oneThread => onThread = c

\* Task c is resumed at an await: it runs on, or it is polled again.
Resumes(c) == oneThread => onThread \in {c, NoOne}

Polled(c) == IF oneThread THEN c ELSE NoOne

\* The send to the n-th sender of v would be pending: the task yields the thread.
Pending(v, n) == n <= Len(v) /\ rxAlive[v[n]] /\ Len(chan[v[n]]) >= Cap

AtAwait(c, v, n) == IF oneThread /\ ~Pending(v, n) THEN c ELSE NoOne

CanCall(c, kind) ==
    pc[c] = "idle" /\ left.calls > 0 /\ left[kind] > 0 /\ CanPoll(c)

Enter(c, kind, rec, label) ==
    /\ left' = [left EXCEPT !.calls = @ - 1, ![kind] = @ - 1]
    /\ call' = [call EXCEPT ![c] = rec]
    /\ ncalls' = ncalls + 1
    /\ pc' = [pc EXCEPT ![c] = label]
    /\ onThread' = Polled(c)

\* insert(position, text) is called: its first statement waits for the content
\* lock.  The arguments are drawn when the critical section runs, where they are
\* first used.
CallInsert(c) ==
    /\ CanCall(c, "muts")
    /\ Enter(c, "muts", NewCall(ncalls + 1, "insert", 0, 0, <<>>, 0), "content_lock")
    /\ UNCHANGED <<rope, contentLock, observers, obsLock, chan, rxAlive, nchan,
                   i, disc, lastMut, prevMut, applied, delivered,
                   expectedLen, allInRange, is_dirty, lastSet, attempts, reg,
                   oneThread>>

\* remove(position, len_bytes) is called.
CallRemove(c) ==
    /\ CanCall(c, "muts")
    /\ Enter(c, "muts", NewCall(ncalls + 1, "remove", 0, 0, <<>>, 0), "content_lock")
    /\ UNCHANGED <<rope, contentLock, observers, obsLock, chan, rxAlive, nchan,
                   i, disc, lastMut, prevMut, applied, delivered,
                   expectedLen, allInRange, is_dirty, lastSet, attempts, reg,
                   oneThread>>

\* get_range(start_byte_idx, end_byte_idx), get_text(), len_bytes() or
\* len_lines() is called.
CallRead(c) ==
    /\ CanCall(c, "reads")
    /\ \E op \in {"get_range", "get_text", "len_bytes", "len_lines"} :
          Enter(c, "reads", NewCall(ncalls + 1, op, 0, 0, <<>>, 0), "content_lock")
    /\ UNCHANGED <<rope, contentLock, observers, obsLock, chan, rxAlive, nchan,
                   i, disc, lastMut, prevMut, applied, delivered,
                   expectedLen, allInRange, is_dirty, lastSet, attempts, reg,
                   oneThread>>

\* add_observer(sender) is called with the sender of a channel the observer
\* created for it; its only statement waits for the observers lock.
CallAddObserver(c) ==
    /\ CanCall(c, "adds")
    /\ nchan < NumChans
    /\ onThread' = Polled(c)
    /\ nchan' = nchan + 1
    /\ left' = [left EXCEPT !.calls = @ - 1, !.adds = @ - 1]
    /\ call' = [call EXCEPT ![c] = NewCall(ncalls + 1, "add_observer", 0, 0, <<>>, nchan + 1)]
    /\ ncalls' = ncalls + 1
    /\ pc' = [pc EXCEPT ![c] = "add_lock"]
    /\ UNCHANGED <<rope, contentLock, observers, obsLock, chan, rxAlive,
                   i, disc, lastMut, prevMut, applied, delivered,
                   expectedLen, allInRange, is_dirty, lastSet, attempts, reg,
                   oneThread>>

\* ------------------------------------------------------- the content lock
\* LockContent that does not wait for the lock to be free.
LockContentUnguarded(c) ==
    /\ pc[c] = "content_lock"
    /\ Runs(c)
    /\ contentLock' = c
    /\ pc' = [pc EXCEPT ![c] = "content_crit"]
    /\ UNCHANGED <<rope, observers, obsLock, chan, rxAlive, nchan, call, i, disc,
                   ncalls, left, lastMut, prevMut, applied, delivered,
                   expectedLen, allInRange, is_dirty, lastSet, attempts, reg,
                   oneThread, onThread>>

\* LockContent when one Mutex guards the rope and the observers together.
LockContentSharedMutex(c) ==
    /\ pc[c] = "content_lock"
    /\ Runs(c)
    /\ contentLock = NoOne /\ obsLock = NoOne
    /\ contentLock' = c
    /\ pc' = [pc EXCEPT ![c] = "content_crit"]
    /\ UNCHANGED <<rope, observers, obsLock, chan, rxAlive, nchan, call, i, disc,
                   ncalls, left, lastMut, prevMut, applied, delivered,
                   expectedLen, allInRange, is_dirty, lastSet, attempts, reg,
                   oneThread, onThread>>

\* self.content.lock(): parking_lot's Mutex, blocking until the lock is free.
LockContent(c) ==
    /\ pc[c] = "content_lock"
    /\ Runs(c)
    /\ contentLock = NoOne
    /\ contentLock' = c
    /\ pc' = [pc EXCEPT ![c] = "content_crit"]
    /\ UNCHANGED <<rope, observers, obsLock, chan, rxAlive, nchan, call, i, disc,
                   ncalls, left, lastMut, prevMut, applied, delivered,
                   expectedLen, allInRange, is_dirty, lastSet, attempts, reg,
                   oneThread, onThread>>

\* Call k is in range on text r, in bytes, as section 3 of the specification
\* defines it (history).
InRange(k, r) ==
    CASE k.op = "insert" -> k.pos <= RopeLenBytes(r)
      [] k.op = "remove" -> k.pos + k.len <= RopeLenBytes(r)
      [] k.op = "get_range" -> k.pos <= k.len /\ k.len <= RopeLenBytes(r)
      [] OTHER -> TRUE

\* Byte offset p of text r falls between two characters (or at an end).
IsCharBoundary(r, p) == \E m \in 0..Len(r) : p = Len(Bytes(SubSeq(r, 1, m)))

\* Call k is in range on text r and its offsets fall on character boundaries.
OnBoundaries(k, r) ==
    /\ InRange(k, r)
    /\ IsCharBoundary(r, k.pos)
    /\ k.op = "remove" => IsCharBoundary(r, k.pos + k.len)
    /\ k.op = "get_range" => IsCharBoundary(r, k.len)

Delta(k) == IF k.op = "insert" THEN Len(Bytes(k.text)) ELSE 0 - k.len

\* The history of an insert/remove that ran its critical section as record k.
Ran(k) ==
    /\ prevMut' = lastMut
    /\ lastMut' = k
    /\ allInRange' = (allInRange /\ OnBoundaries(k, rope))
    /\ expectedLen' = IF OnBoundaries(k, rope) THEN expectedLen + Delta(k) ELSE expectedLen

\* A position argument: the byte offsets of the current text and one beyond them.
Positions == {p \in 0..MaxPos : p <= RopeLenBytes(rope) + 1}

\* The rest of a mutation whose Rope call panicked: the guard is dropped while
\* unwinding (parking_lot does not poison) and the call does not return.
MutationPanicked(c, a) ==
    LET k == [a EXCEPT !.res = "panic", !.pre = rope, !.post = rope] IN
    /\ contentLock' = NoOne
    /\ pc' = [pc EXCEPT ![c] = "idle"]
    /\ call' = [call EXCEPT ![c] = k]
    /\ Ran(k)
    /\ onThread' = NoOne
    /\ UNCHANGED <<rope, applied, is_dirty>>

\* Mutated without drop(rope): the guard lives to the end of the function.
MutatedHoldingLock(c, a, r) ==
    LET k == [a EXCEPT !.pre = rope, !.post = r] IN
    /\ rope' = r
    /\ contentLock' = c
    /\ pc' = [pc EXCEPT ![c] = "observers_lock"]
    /\ call' = [call EXCEPT ![c] = k]
    /\ Ran(k)
    /\ applied' = Append(applied, call[c].id)
    /\ UNCHANGED <<is_dirty, onThread>>

\* Mutated in a design where a mutation marks the document dirty.
MutatedMarksDirty(c, a, r) ==
    LET k == [a EXCEPT !.pre = rope, !.post = r] IN
    /\ rope' = r
    /\ contentLock' = NoOne
    /\ pc' = [pc EXCEPT ![c] = "observers_lock"]
    /\ call' = [call EXCEPT ![c] = k]
    /\ Ran(k)
    /\ applied' = Append(applied, call[c].id)
    /\ is_dirty' = TRUE
    /\ UNCHANGED onThread

\* The rest of a mutation that changed the rope to r: drop(rope), then
\* notify_observers is awaited.
Mutated(c, a, r) ==
    LET k == [a EXCEPT !.pre = rope, !.post = r] IN
    /\ rope' = r
    /\ contentLock' = NoOne
    /\ pc' = [pc EXCEPT ![c] = "observers_lock"]
    /\ call' = [call EXCEPT ![c] = k]
    /\ Ran(k)
    /\ applied' = Append(applied, call[c].id)
    /\ UNCHANGED <<is_dirty, onThread>>

\* insert: rope.insert(position.byte_idx, text); drop(rope).
DoInsert(c) ==
    /\ pc[c] = "content_crit"
    /\ Runs(c)
    /\ call[c].op = "insert"
    /\ \E p \in Positions, t \in InsertTexts :
          LET a == [call[c] EXCEPT !.pos = p, !.text = t]
              r == RopeInsert(rope, p, t)
          IN  IF r.panic THEN MutationPanicked(c, a) ELSE Mutated(c, a, r.rope)
    /\ UNCHANGED <<observers, obsLock, chan, rxAlive, nchan, i, disc, ncalls,
                   left, delivered, lastSet, attempts, reg, oneThread>>

\* remove: rope.remove(position.byte_idx..(position.byte_idx + len_bytes)); drop(rope).
DoRemove(c) ==
    /\ pc[c] = "content_crit"
    /\ Runs(c)
    /\ call[c].op = "remove"
    /\ \E p \in Positions, n \in 1..MaxRemove :
          LET a == [call[c] EXCEPT !.pos = p, !.len = n]
              r == RopeRemove(rope, p, p + n)
          IN  IF r.panic THEN MutationPanicked(c, a) ELSE Mutated(c, a, r.rope)
    /\ UNCHANGED <<observers, obsLock, chan, rxAlive, nchan, i, disc, ncalls,
                   left, delivered, lastSet, attempts, reg, oneThread>>

\* The rest of a read: the temporary guard is dropped at the end of the
\* statement (or while unwinding), the call returns or has panicked.
Returned(c, a, res, text, num) ==
    /\ contentLock' = NoOne
    /\ pc' = [pc EXCEPT ![c] = "idle"]
    /\ call' = [call EXCEPT ![c] = [a EXCEPT !.res = res, !.pre = rope, !.post = rope,
                                             !.ret = text, !.retNum = num]]
    /\ onThread' = NoOne
    /\ UNCHANGED <<rope, observers, obsLock, chan, rxAlive, nchan, i, disc, ncalls,
                   left, lastMut, prevMut, applied, delivered, expectedLen,
                   allInRange, is_dirty, lastSet, attempts, reg, oneThread>>

\* get_range: self.content.lock().slice(start_byte_idx..end_byte_idx).to_string().
DoGetRange(c) ==
    /\ pc[c] = "content_crit"
    /\ Runs(c)
    /\ call[c].op = "get_range"
    /\ \E st \in Positions, en \in Positions :
          LET a == [call[c] EXCEPT !.pos = st, !.len = en]
              r == RopeSlice(rope, st, en)
          IN  Returned(c, a, IF r.panic THEN "panic" ELSE "ok", r.rope, 0)

\* get_text: self.content.lock().to_string().
DoGetText(c) ==
    /\ pc[c] = "content_crit"
    /\ Runs(c)
    /\ call[c].op = "get_text"
    /\ Returned(c, call[c], "ok", rope, 0)

\* len_bytes: self.content.lock().len_bytes().
DoLenBytes(c) ==
    /\ pc[c] = "content_crit"
    /\ Runs(c)
    /\ call[c].op = "len_bytes"
    /\ Returned(c, call[c], "ok", <<>>, RopeLenBytes(rope))

\* len_lines: self.content.lock().len_lines().
DoLenLines(c) ==
    /\ pc[c] = "content_crit"
    /\ Runs(c)
    /\ call[c].op = "len_lines"
    /\ Returned(c, call[c], "ok", <<>>, RopeLenLines(rope))

\* ---------------------------------------------------- the observers lock
\* No insert or remove is between its call and its return (history).
NoMutationInFlight == \A d \in Callers : call[d].op \in {"insert", "remove"} => pc[d] = "idle"

\* add_observer: self.observers.lock().push(sender).
AddObserver(c) ==
    /\ pc[c] = "add_lock"
    /\ Runs(c)
    /\ obsLock = NoOne
    /\ observers' = Append(observers, call[c].ch)
    /\ pc' = [pc EXCEPT ![c] = "idle"]
    /\ call' = [call EXCEPT ![c].res = "ok"]
    /\ reg' = [reg EXCEPT ![call[c].ch] = [len |-> RopeLenBytes(rope),
                                           quiet |-> NoMutationInFlight]]
    /\ onThread' = NoOne
    /\ UNCHANGED <<rope, contentLock, obsLock, chan, rxAlive, nchan, i, disc,
                   ncalls, left, lastMut, prevMut, applied, delivered,
                   expectedLen, allInRange, is_dirty, lastSet, attempts,
                   oneThread>>

\* notify_observers: let observers = self.observers.lock(); the guard lives to
\* the end of the function, across every send(..).await of the loop.
LockObservers(c) ==
    /\ pc[c] = "observers_lock"
    /\ Runs(c)
    /\ obsLock = NoOne
    /\ onThread' = AtAwait(c, observers, 1)
    /\ obsLock' = c
    /\ i' = [i EXCEPT ![c] = 1]
    /\ disc' = [disc EXCEPT ![c] = <<>>]
    /\ pc' = [pc EXCEPT ![c] = "send"]
    /\ call' = [call EXCEPT ![c].obs = observers, ![c].dead = DeadIn(observers)]
    /\ UNCHANGED <<rope, contentLock, observers, chan, rxAlive, nchan, ncalls,
                   left, lastMut, prevMut, applied, delivered, expectedLen,
                   allInRange, is_dirty, lastSet, attempts, reg, oneThread>>

\* One iteration of the loop: sender.send(event.clone()).await.  The send fails
\* at once when the receiver is gone, completes when the channel has room, and
\* is suspended otherwise.
SendNext(c) ==
    /\ pc[c] = "send"
    /\ Resumes(c)
    /\ i[c] <= Len(observers)
    /\ LET ch == observers[i[c]] IN
          IF SendFails(ch)
          THEN /\ disc' = [disc EXCEPT ![c] = Append(@, i[c])]
               /\ attempts' = [attempts EXCEPT ![ch] = Append(@, [id |-> call[c].id, ok |-> FALSE])]
               /\ UNCHANGED <<chan, delivered>>
          ELSE /\ SendReady(ch)
               /\ chan' = [chan EXCEPT ![ch] = Append(@, EventOf(call[c]))]
               /\ delivered' = [delivered EXCEPT ![ch] = Append(@, EventOf(call[c]))]
               /\ attempts' = [attempts EXCEPT ![ch] = Append(@, [id |-> call[c].id, ok |-> TRUE])]
               /\ UNCHANGED disc
    /\ i' = [i EXCEPT ![c] = @ + 1]
    /\ onThread' = AtAwait(c, observers, i[c] + 1)
    /\ UNCHANGED <<rope, contentLock, observers, obsLock, rxAlive, nchan, pc, call,
                   ncalls, left, lastMut, prevMut, applied, expectedLen,
                   allInRange, is_dirty, lastSet, reg, oneThread>>

\* After the loop: the disconnected senders are removed in reverse order, the
\* guard is dropped and the call returns.
Prune(c) ==
    /\ pc[c] = "send"
    /\ Runs(c)
    /\ i[c] > Len(observers)
    /\ onThread' = NoOne
    /\ observers' = RemoveDisconnected(observers, disc[c])
    /\ obsLock' = NoOne
    /\ i' = [i EXCEPT ![c] = 0]
    /\ disc' = [disc EXCEPT ![c] = <<>>]
    /\ pc' = [pc EXCEPT ![c] = "idle"]
    /\ call' = [call EXCEPT ![c].res = "ok", ![c].deadEnd = DeadIn(observers),
                            ![c].pruned = RemoveDisconnected(observers, disc[c])]
    /\ UNCHANGED <<rope, contentLock, chan, rxAlive, nchan, ncalls,
                   left, lastMut, prevMut, applied, delivered, expectedLen,
                   allInRange, is_dirty, lastSet, attempts, reg, oneThread>>

\* ------------------------------------------------------------ the document
\* Document::set_dirty(dirty): *self.is_dirty.lock() = dirty.  The flag has a
\* Mutex of its own, no other code takes it, and the statement neither waits
\* for another lock nor awaits: the call is one step.
SetDirty(c) ==
    /\ CanCall(c, "docs")
    /\ \E b \in BOOLEAN :
          /\ is_dirty' = b
          /\ lastSet' = b
          /\ call' = [call EXCEPT ![c] = [NewCall(ncalls + 1, "set_dirty", 0, 0, <<>>, 0)
                                            EXCEPT !.res = "ok", !.flag = b]]
    /\ left' = [left EXCEPT !.calls = @ - 1, !.docs = @ - 1]
    /\ ncalls' = ncalls + 1
    /\ UNCHANGED <<rope, contentLock, observers, obsLock, chan, rxAlive, nchan, pc,
                   i, disc, lastMut, prevMut, applied, delivered, expectedLen,
                   allInRange, attempts, reg, oneThread, onThread>>

\* Document::is_dirty(): *self.is_dirty.lock().
IsDirty(c) ==
    /\ CanCall(c, "docs")
    /\ call' = [call EXCEPT ![c] = [NewCall(ncalls + 1, "is_dirty", 0, 0, <<>>, 0)
                                      EXCEPT !.res = "ok", !.flag = is_dirty]]
    /\ left' = [left EXCEPT !.calls = @ - 1, !.docs = @ - 1]
    /\ ncalls' = ncalls + 1
    /\ UNCHANGED <<rope, contentLock, observers, obsLock, chan, rxAlive, nchan, pc,
                   i, disc, lastMut, prevMut, applied, delivered, expectedLen,
                   allInRange, is_dirty, lastSet, attempts, reg, oneThread,
                   onThread>>

\* ------------------------------------------------------------ the receivers
\* The observer takes the next event from its Receiver.
Recv(ch) ==
    /\ ch <= nchan
    /\ rxAlive[ch]
    /\ chan[ch] # <<>>
    /\ chan' = [chan EXCEPT ![ch] = Tail(@)]
    /\ UNCHANGED <<rope, contentLock, observers, obsLock, rxAlive, nchan, pc, call,
                   i, disc, ncalls, left, lastMut, prevMut, applied, delivered,
                   expectedLen, allInRange, is_dirty, lastSet, attempts, reg,
                   oneThread, onThread>>

\* The observer drops its Receiver: the channel closes, what it holds is lost.
DropReceiver(ch) ==
    /\ ch <= nchan
    /\ rxAlive[ch]
    /\ rxAlive' = [rxAlive EXCEPT ![ch] = FALSE]
    /\ chan' = [chan EXCEPT ![ch] = <<>>]
    /\ UNCHANGED <<rope, contentLock, observers, obsLock, nchan, pc, call,
                   i, disc, ncalls, left, lastMut, prevMut, applied, delivered,
                   expectedLen, allInRange, is_dirty, lastSet, attempts, reg,
                   oneThread, onThread>>

Next ==
    \/ \E c \in Callers : CallInsert(c)
    \/ \E c \in Callers : CallRemove(c)
    \/ \E c \in Callers : CallRead(c)
    \/ \E c \in Callers : CallAddObserver(c)
    \/ \E c \in Callers : LockContent(c)
    \/ \E c \in Callers : DoInsert(c)
    \/ \E c \in Callers : DoRemove(c)
    \/ \E c \in Callers : DoGetRange(c)
    \/ \E c \in Callers : DoGetText(c)
    \/ \E c \in Callers : DoLenBytes(c)
    \/ \E c \in Callers : DoLenLines(c)
    \/ \E c \in Callers : AddObserver(c)
    \/ \E c \in Callers : LockObservers(c)
    \/ \E c \in Callers : SendNext(c)
    \/ \E c \in Callers : Prune(c)
    \/ \E c \in Callers : SetDirty(c)
    \/ \E c \in Callers : IsDirty(c)
    \/ \E ch \in Chans : Recv(ch)
    \/ \E ch \in Chans : DropReceiver(ch)

Spec == Init /\ [][Next]_vars

\* Fairness: a caller that can take its next step takes it (the thread runs, a
\* send whose channel has room or is closed is woken).  Nothing obliges an
\* observer to take events from its channel or to drop it.
CallerStep(c) ==
    \/ LockContent(c) \/ DoInsert(c) \/ DoRemove(c) \/ DoGetRange(c)
    \/ DoGetText(c) \/ DoLenBytes(c) \/ DoLenLines(c)
    \/ AddObserver(c) \/ LockObservers(c) \/ SendNext(c) \/ Prune(c)

\* A workload on a new, empty TextBuffer on which add_observer has returned for
\* the first n channels: budget is the calls the callers may start, by kind.
Workload(budget, n) ==
    /\ rope = <<>>
    /\ contentLock = NoOne
    /\ observers = [k \in 1..n |-> k]
    /\ obsLock = NoOne
    /\ chan = [ch \in Chans |-> <<>>]
    /\ rxAlive = [ch \in Chans |-> TRUE]
    /\ nchan = n
    /\ pc = [c \in Callers |-> "idle"]
    /\ call = [c \in Callers |-> NoCall]
    /\ i = [c \in Callers |-> 0]
    /\ disc = [c \in Callers |-> <<>>]
    /\ ncalls = 0
    /\ left = budget
    /\ lastMut = NoCall
    /\ prevMut = NoCall
    /\ applied = <<>>
    /\ delivered = [ch \in Chans |-> <<>>]
    /\ expectedLen = 0
    /\ allInRange = TRUE
    /\ is_dirty = FALSE
    /\ lastSet = FALSE
    /\ attempts = [ch \in Chans |-> <<>>]
    /\ reg = [ch \in Chans |-> IF ch <= n THEN [len |-> 0, quiet |-> TRUE]
                                 ELSE NotRegistered]
    /\ onThread = NoOne

\* The workload of the dispatch claims: the callers, a thread each, register two
\* observers and run two mutations, and no caller reads.
LiveCalls == 4

InitLive ==
    /\ Workload([calls |-> LiveCalls, muts |-> MaxMutations, reads |-> 0, docs |-> 0,
                 adds |-> NumChans], 0)
    /\ oneThread = FALSE

NextLive ==
    \/ \E c \in Callers : CallInsert(c)
    \/ \E c \in Callers : CallRemove(c)
    \/ \E c \in Callers : CallAddObserver(c)
    \/ \E c \in Callers : LockContent(c)
    \/ \E c \in Callers : DoInsert(c)
    \/ \E c \in Callers : DoRemove(c)
    \/ \E c \in Callers : AddObserver(c)
    \/ \E c \in Callers : LockObservers(c)
    \/ \E c \in Callers : SendNext(c)
    \/ \E c \in Callers : Prune(c)
    \/ \E ch \in Chans : Recv(ch)
    \/ \E ch \in Chans : DropReceiver(ch)

LiveSpec == InitLive /\ [][NextLive]_vars /\ \A c \in Callers : WF_vars(CallerStep(c))

\* The same workload when the callers are tasks of one thread and every observer
\* that keeps its receiver takes the events that reach it.
InitTasks ==
    /\ Workload([calls |-> LiveCalls, muts |-> MaxMutations, reads |-> 0, docs |-> 0,
                 adds |-> NumChans], 0)
    /\ oneThread = TRUE

TaskSpec ==
    /\ InitTasks /\ [][NextLive]_vars
    /\ \A c \in Callers : WF_vars(CallerStep(c))
    /\ \A ch \in Chans : WF_vars(Recv(ch))

\* The workload of the stall claim: one observer is registered and keeps its
\* receiver, taking events from it or not; the callers (threads, or tasks of one
\* thread) run mutations and a read.
StallCalls == 3
StallObservers == 1

InitStall ==
    /\ Workload([calls |-> StallCalls, muts |-> StallCalls, reads |-> MaxReads,
                 docs |-> 0, adds |-> 0], StallObservers)
    /\ oneThread \in BOOLEAN

NextStall ==
    \/ \E c \in Callers : CallInsert(c)
    \/ \E c \in Callers : CallRemove(c)
    \/ \E c \in Callers : CallRead(c)
    \/ \E c \in Callers : LockContent(c)
    \/ \E c \in Callers : DoInsert(c)
    \/ \E c \in Callers : DoRemove(c)
    \/ \E c \in Callers : DoGetRange(c)
    \/ \E c \in Callers : DoGetText(c)
    \/ \E c \in Callers : DoLenBytes(c)
    \/ \E c \in Callers : DoLenLines(c)
    \/ \E c \in Callers : LockObservers(c)
    \/ \E c \in Callers : SendNext(c)
    \/ \E c \in Callers : Prune(c)
    \/ \E ch \in Chans : Recv(ch)

StallSpec == InitStall /\ [][NextStall]_vars /\ \A c \in Callers : WF_vars(CallerStep(c))

\* ------------------------------------------------------- claim vocabulary
Mutations == {"insert", "remove"}

\* Caller c's call has left the content critical section.
HasRun(c) == call[c].op # "none" /\ pc[c] \notin {"content_lock", "content_crit", "add_lock"}

\* The prior bytes with the bytes s spliced in at byte offset p.
SpliceBytes(b, p, s) == SubSeq(b, 1, p) \o s \o SubSeq(b, p + 1, Len(b))

\* The events call id put into channel ch.
EventsOf(ch, id) == {n \in 1..Len(delivered[ch]) : delivered[ch][n].id = id}

\* The event section 3 of the specification describes for call k.
ExpectedEvent(k) ==
    IF k.op = "insert"
    THEN [kind |-> "Inserted", start |-> k.pos, len |-> Len(Bytes(k.text)), id |-> k.id]
    ELSE [kind |-> "Removed", start |-> k.pos, len |-> k.len, id |-> k.id]

Range(v) == {v[n] : n \in 1..Len(v)}

IndexIn(v, x) == CHOOSE n \in 1..Len(v) : v[n] = x

\* C1: after insert(p, s) with p in range (and between two characters) has run,
\* the text is the prior text with s spliced in at byte offset p and len_bytes()
\* is the prior length plus the byte length of s.
C1_InsertSplicesAtByteOffset ==
    (lastMut.op = "insert" /\ OnBoundaries(lastMut, lastMut.pre)) =>
        /\ lastMut.res # "panic"
        /\ Bytes(lastMut.post) = SpliceBytes(Bytes(lastMut.pre), lastMut.pos, Bytes(lastMut.text))
        /\ RopeLenBytes(lastMut.post) = RopeLenBytes(lastMut.pre) + Len(Bytes(lastMut.text))

\* C2: insert(p, s) followed by remove(p, len(s)), len(s) the byte length of s,
\* restores the prior text and the prior len_bytes().
C2_InsertRemoveRoundTrip ==
    (/\ prevMut.op = "insert" /\ prevMut.res # "panic"
     /\ OnBoundaries(prevMut, prevMut.pre)
     /\ lastMut.op = "remove"
     /\ lastMut.pos = prevMut.pos
     /\ lastMut.len = Len(Bytes(prevMut.text))) =>
        /\ lastMut.res # "panic"
        /\ lastMut.post = prevMut.pre
        /\ RopeLenBytes(lastMut.post) = RopeLenBytes(prevMut.pre)

\* C3: an out-of-range insert, remove or get_range returns BoundsError to its
\* caller and leaves the text and len_bytes() as they were.
C3_OutOfRangeReturnsBoundsError ==
    \A c \in Callers :
        (/\ call[c].op \in Mutations \cup {"get_range"}
         /\ HasRun(c)
         /\ ~InRange(call[c], call[c].pre)) =>
            /\ call[c].res = "BoundsError"
            /\ call[c].post = call[c].pre

\* C4: an insert or remove that is out of range, or that failed, puts no event
\* into any observer's channel.
C4_FailedMutationEmitsNoEvent ==
    \A c \in Callers :
        (/\ call[c].op \in Mutations
         /\ HasRun(c)
         /\ (~InRange(call[c], call[c].pre) \/ call[c].res = "panic")) =>
            \A ch \in Chans : EventsOf(ch, call[c].id) = {}

\* A caller's out-of-range insert has failed while a live observer is registered.
C4_Witness ==
    \E c \in Callers :
        /\ call[c].op = "insert"
        /\ pc[c] = "idle"
        /\ call[c].res = "panic"
        /\ ~InRange(call[c], call[c].pre)
        /\ \E ch \in Range(observers) : rxAlive[ch]

\* C5: a completed insert/remove has put exactly one event, the one describing
\* it, into the channel of every observer registered at its dispatch whose
\* receiver is alive, at most one into any channel, and none into the channel of
\* an endpoint that was not registered, whether or not other sends of the same
\* dispatch failed.
C5_ExactlyOneEventPerLiveObserver ==
    \A c \in Callers :
        (call[c].op \in Mutations /\ call[c].res = "ok") =>
            \A ch \in Chans :
                /\ Cardinality(EventsOf(ch, call[c].id)) <= 1
                /\ \A n \in EventsOf(ch, call[c].id) :
                      delivered[ch][n] = ExpectedEvent(call[c])
                /\ (ch \in Range(call[c].obs) /\ rxAlive[ch]) =>
                      Cardinality(EventsOf(ch, call[c].id)) = 1
                /\ ch \notin Range(call[c].obs) => EventsOf(ch, call[c].id) = {}

\* A completed insert of a two-byte text whose dispatch found the first of two
\* observers gone and delivered to the second.
C5_Witness ==
    \E c \in Callers :
        /\ call[c].op = "insert" /\ call[c].res = "ok"
        /\ Len(Bytes(call[c].text)) = 2
        /\ Len(call[c].obs) = 2
        /\ call[c].obs[1] \in call[c].dead
        /\ rxAlive[call[c].obs[2]]
        /\ Cardinality(EventsOf(call[c].obs[2], call[c].id)) = 1

\* C6: every channel receives its events in the order in which the mutations
\* changed the content.
C6_EventsInMutationOrder ==
    \A ch \in Chans :
        \A m, n \in 1..Len(delivered[ch]) :
            m < n => IndexIn(applied, delivered[ch][m].id) < IndexIn(applied, delivered[ch][n].id)

\* C7: when exactly one registered observer's receiver is gone, from the start
\* of a dispatch to its end, the completed insert/remove has removed that
\* observer and no other: the subscriber set is one shorter and every other
\* observer is still registered, in the same order.
C7_DeadObserverPruned ==
    \A c \in Callers :
        (/\ call[c].op \in Mutations /\ call[c].res = "ok"
         /\ Cardinality(call[c].dead) = 1
         /\ call[c].deadEnd = call[c].dead) =>
            /\ Range(call[c].pruned) = Range(call[c].obs) \ call[c].dead
            /\ Len(call[c].pruned) = Len(call[c].obs) - 1
            /\ call[c].pruned = SelectSeq(call[c].obs, LAMBDA o : o \notin call[c].dead)

\* A completed mutation whose dispatch found the first of two observers gone and
\* left exactly the second registered.
C7_Witness ==
    \E c \in Callers :
        /\ call[c].op \in Mutations /\ call[c].res = "ok"
        /\ Len(call[c].obs) = 2
        /\ call[c].dead = {call[c].obs[1]}
        /\ call[c].deadEnd = call[c].dead
        /\ call[c].pruned = <<call[c].obs[2]>>

\* C8: once every call has finished, if every insert/remove was in range (and
\* between characters) when it ran, len_bytes() is the initial length plus the
\* inserted byte lengths minus the removed lengths.
C8_NoLostUpdates ==
    ((\A c \in Callers : pc[c] = "idle") /\ allInRange) =>
        RopeLenBytes(rope) = expectedLen

\* Caller d holds the observers lock at a send(..).await of its dispatch.
Dispatching(d) == obsLock = d /\ pc[d] = "send" /\ i[d] <= Len(observers)

\* C9: add_observer never waits for a dispatch: no caller is at add_observer's
\* lock() while another caller holds the observers lock at a send of its
\* dispatch.
C9_AddObserverNeverBlocks ==
    \A c \in Callers : pc[c] = "add_lock" => ~(\E d \in Callers : Dispatching(d))

\* Caller c's dispatch still owes its event to endpoint o, which is alive and
\* has a free slot.
Owes(c, o) ==
    /\ pc[c] = "send"
    /\ \E n \in i[c]..Len(observers) : observers[n] = o
    /\ rxAlive[o]
    /\ Len(chan[o]) < Cap

\* C10: a dispatch eventually delivers its event to every live endpoint that has
\* room (unless that endpoint's receiver goes away first), whatever the state of
\* the other endpoints.
C10_DeliveryIndependent ==
    \A c \in Callers : \A o \in Chans : Owes(c, o) ~> ~Owes(c, o)

\* Caller d's dispatch is suspended in send(..).await on a full channel whose
\* receiver is alive.
Suspended(d) == obsLock = d /\ pc[d] = "send" /\ Pending(observers, i[d])

\* C11: a subscriber that never takes its events stalls notification only: while
\* the dispatch of caller d is suspended on the full channel, an insert, remove
\* or read another caller has started still gets the content lock and runs its
\* critical section (the edit is applied, the read returns), whether or not the
\* channel is ever drained.
C11_StallsOnlyNotification ==
    \A c \in Callers : \A d \in Callers \ {c} :
        (Suspended(d) /\ pc[c] \in {"content_lock", "content_crit"}) ~> HasRun(c)

\* A mutation started after the suspended one has changed the text while the
\* dispatch is still suspended.
C11_Witness ==
    \E c \in Callers : \E d \in Callers \ {c} :
        /\ Suspended(d)
        /\ call[c].op \in Mutations /\ call[c].res # "panic"
        /\ HasRun(c)
        /\ call[c].id > call[d].id
        /\ call[c].id \in Range(applied)
        /\ call[c].post # call[c].pre

\* The senders of v that are not in S, in the order of v.
Without(v, S) == LET Kept(o) == o \notin S IN SelectSeq(v, Kept)

\* The channels whose send failed in the dispatch of call id.
FailedIn(id) ==
    {ch \in Chans : \E n \in 1..Len(attempts[ch]) :
                        attempts[ch][n] = [id |-> id, ok |-> FALSE]}

\* C12: the subscriber collection changes in two ways only: add_observer appends
\* exactly the one sender it was given, and the end of a dispatch removes senders
\* whose send failed in that dispatch, every one of them with its receiver gone.
\* No other step (a read, a panicking mutation, set_dirty, is_dirty, a send that
\* succeeds, a receiver's step) changes it.
C12_ObserversChangeOnlyByAddAndPrune ==
    [][ \/ observers' = observers
        \/ \E c \in Callers :
              /\ pc[c] = "add_lock" /\ pc'[c] = "idle"
              /\ observers' = Append(observers, call[c].ch)
        \/ \E c \in Callers :
              /\ pc[c] = "send" /\ pc'[c] = "idle"
              /\ \E S \in SUBSET Range(observers) :
                    /\ S # {}
                    /\ S \subseteq FailedIn(call[c].id)
                    /\ \A o \in S : ~rxAlive[o]
                    /\ observers' = Without(observers, S)
      ]_vars

\* A dispatch delivered to its first endpoint, alive, and removed its second,
\* whose receiver was gone.
C12_Witness ==
    \E c \in Callers :
        /\ call[c].op \in Mutations /\ call[c].res = "ok"
        /\ Len(call[c].obs) = 2
        /\ rxAlive[call[c].obs[1]]
        /\ FailedIn(call[c].id) = {call[c].obs[2]}
        /\ observers = <<call[c].obs[1]>>

\* A step in which some caller's set_dirty call ran.
SetDirtyStep == \E c \in Callers : call'[c].op = "set_dirty" /\ call'[c].id = ncalls + 1

\* C13: is_dirty is false after Document::new and changes only in a set_dirty
\* call, to the argument of that call; is_dirty() returns the argument of the
\* latest set_dirty (false if there was none).  No insert, remove, read or
\* dispatch step on the document's TextBuffer changes the flag.
C13_DirtyFlagOnlyBySetDirty ==
    /\ [](is_dirty = lastSet)
    /\ [](\A c \in Callers : call[c].op = "is_dirty" /\ call[c].id = ncalls
                                => call[c].flag = lastSet)
    /\ [][is_dirty' # is_dirty => SetDirtyStep]_vars
    /\ [][SetDirtyStep => \E c \in Callers : is_dirty' = call'[c].flag /\ call'[c].op = "set_dirty"
                                              /\ call'[c].id = ncalls + 1]_vars
    /\ [][(\E c \in Callers : pc'[c] # pc[c]) => is_dirty' = is_dirty]_vars

\* set_dirty(true) was called, a mutation then changed the text and was
\* dispatched, and is_dirty() called after it returned true.
C13_Witness ==
    \E c \in Callers : \E d \in Callers :
        /\ call[c].op = "is_dirty" /\ call[c].flag
        /\ call[d].op \in Mutations /\ call[d].res = "ok"
        /\ call[d].post # call[d].pre
        /\ call[d].id < call[c].id
        /\ is_dirty

\* C14: whoever holds the content lock is inside its content critical section:
\* no caller holds it while it waits for the observers lock, while it holds the
\* observers guard, while it dispatches or while it is suspended on a channel.
C14_ContentLockNotHeldInDispatch ==
    /\ contentLock # NoOne => pc[contentLock] = "content_crit"
    /\ \A c \in Callers :
          pc[c] \in {"observers_lock", "send", "add_lock"} \/ obsLock = c
              => contentLock # c

\* A mutation has changed the text and its dispatch is suspended on a full
\* channel, holding the observers guard, while the content lock is free.
C14_Witness ==
    \E d \in Callers :
        /\ Suspended(d)
        /\ call[d].post # call[d].pre
        /\ contentLock = NoOne

\* C15: when every observer that keeps its receiver takes the events that reach
\* it, every call of insert, remove and add_observer eventually returns.
C15_EveryCallReturns == \A c \in Callers : pc[c] # "idle" ~> pc[c] = "idle"

\* The channels the dispatch of call id has attempted a send to, in the order of
\* the attempts.
RECURSIVE AttemptedBy(_, _)
AttemptedBy(id, v) ==
    IF v = <<>> THEN <<>>
    ELSE IF \E n \in 1..Len(attempts[Head(v)]) : attempts[Head(v)][n].id = id
         THEN <<Head(v)>> \o AttemptedBy(id, Tail(v))
         ELSE AttemptedBy(id, Tail(v))

\* C16: a dispatch attempts one send to every sender that was in the collection
\* when it started, in registration order, and a failed send is the last send
\* ever attempted to that channel: no later dispatch tries it again.
C16_AllAttemptedFailureFinal ==
    /\ \A c \in Callers :
          call[c].op \in Mutations /\ call[c].res = "ok"
              => /\ AttemptedBy(call[c].id, call[c].obs) = call[c].obs
                 /\ \A ch \in Range(call[c].obs) :
                       Cardinality({n \in 1..Len(attempts[ch]) :
                                       attempts[ch][n].id = call[c].id}) = 1
    /\ \A c \in Callers :
          pc[c] = "send"
              => \A n \in 1..Len(call[c].obs) :
                    (\E m \in 1..Len(attempts[call[c].obs[n]]) :
                         attempts[call[c].obs[n]][m].id = call[c].id) <=> n < i[c]
    /\ \A ch \in Chans : \A n \in 1..Len(attempts[ch]) :
          ~attempts[ch][n].ok => n = Len(attempts[ch])

\* A send to a channel failed in one dispatch, and a later dispatch has run to
\* its end.
C16_Witness ==
    \E ch \in Chans : \E c \in Callers :
        /\ attempts[ch] # <<>>
        /\ ~attempts[ch][Len(attempts[ch])].ok
        /\ call[c].op \in Mutations /\ call[c].res = "ok"
        /\ call[c].id > attempts[ch][Len(attempts[ch])].id

\* C17: at most one caller is inside a content critical section (of insert,
\* remove, get_text, get_range, len_bytes or len_lines) at any time, and it is
\* the holder of the content lock; a read therefore returns the text as it was
\* before or after each mutation, whole.
C17_ContentMutualExclusion ==
    /\ Cardinality({c \in Callers : pc[c] = "content_crit"}) <= 1
    /\ \A c \in Callers : pc[c] = "content_crit" <=> contentLock = c
    /\ \A c \in Callers :
          call[c].op \in {"get_text", "get_range", "len_bytes", "len_lines"} /\ HasRun(c)
              => /\ call[c].pre = call[c].post
                 /\ call[c].op = "get_text" => call[c].ret = call[c].pre
                 /\ call[c].op = "len_bytes" => call[c].retNum = RopeLenBytes(call[c].pre)

\* One caller is inside the critical section of a mutation while the other,
\* which called get_text, waits for the content lock.
C17_Witness ==
    \E c \in Callers : \E d \in Callers \ {c} :
        /\ pc[c] = "content_crit" /\ call[c].op \in Mutations
        /\ pc[d] = "content_lock" /\ call[d].op = "get_text"

RECURSIVE NetLen(_)
NetLen(es) ==
    IF es = <<>> THEN 0
    ELSE (IF Head(es).kind = "Inserted" THEN Head(es).len ELSE 0 - Head(es).len)
         + NetLen(Tail(es))

\* No call is between its start and its return.
Quiescent == \A c \in Callers : pc[c] = "idle"

\* C19: for an observer registered while no mutation was in flight and that has
\* kept its receiver, once every call has returned the events sent to it add up
\* to the change of len_bytes() since its registration (here for mutations
\* whose offsets are all in range and between characters).
C19_EventStreamAddsUp ==
    \A ch \in Chans :
        /\ ch \in Range(observers) /\ rxAlive[ch]
        /\ reg[ch].quiet
        /\ Quiescent
        /\ allInRange
        => NetLen(delivered[ch]) = RopeLenBytes(rope) - reg[ch].len

Reads == {"get_text", "get_range", "len_bytes", "len_lines"}

\* C20: a read leaves the text as it found it; len_bytes() is the byte length of
\* what get_text() returns; and get_range(0, len_bytes()) returns what get_text()
\* returns.
C20_ReadsAgree ==
    \A c \in Callers :
        call[c].op \in Reads /\ HasRun(c)
            => /\ call[c].post = call[c].pre
               /\ call[c].op = "get_text" => call[c].ret = call[c].pre
               /\ call[c].op = "len_bytes" => call[c].retNum = Len(Bytes(call[c].pre))
               /\ (call[c].op = "get_range" /\ call[c].pos = 0
                     /\ call[c].len = RopeLenBytes(call[c].pre))
                    => call[c].res = "ok" /\ call[c].ret = call[c].pre

====
